---- MODULE Spec2Model ----
(***************************************************************************)
(* A model of toxy.py: the installer pipeline (main and its four steps)    *)
(* and the rewrite of /etc/proxychains4.conf done by                       *)
(* configure_proxychains.                                                  *)
(*                                                                         *)
(* Text.  A file's content is a sequence of tokens; a token is a fixed,    *)
(* indivisible piece of text and a content is the concatenation of its     *)
(* tokens.  The tokens are chosen so that no concatenation of them creates *)
(* an occurrence of "socks", "http" or "[ProxyList]" across a token        *)
(* boundary; on such texts Python's strip, startswith, `in`, universal     *)
(* newline reading and readlines are exactly the token operators below.    *)
(***************************************************************************)
EXTENDS Integers, Sequences, FiniteSets, TLC

VARIABLES
    pc,        \* position of the process in main and the steps it calls
    euid,      \* effective user id of the invocation
    status,    \* exit status of the process (meaningful once pc = "exit")
    fatal,     \* which sys.exit(1) ended the process, "none" otherwise
    finished,  \* number of steps of main that have returned
    torList,   \* /etc/apt/sources.list.d/torproject.list exists
    gpgKey,    \* /usr/share/keyrings/tor-archive-keyring.gpg exists
    conf,      \* /etc/proxychains4.conf   [exists, data]
    bak,       \* /etc/proxychains4.conf.bak
    lines,     \* configure_proxychains: the list read by readlines()
    i,         \* configure_proxychains: index of the next line of the loop
    found,     \* configure_proxychains: found_proxy_list
    log,       \* history: every command run and every file mutation, in order
    fs0,       \* history: the file system when main was invoked
    conf0,     \* history: content of the config file when configure_proxychains was entered
    runs       \* number of completed invocations of configure_proxychains

vars == <<pc, euid, status, fatal, finished, torList, gpgKey, conf, bak,
          lines, i, found, log, fs0, conf0, runs>>

----------------------------------------------------------------------------
(* Bounds *)

MaxLen == 4

MaxConfLen == 2

MaxRuns == 2

----------------------------------------------------------------------------
(* Tokens *)

NL == "\n"

CR == "\r"

SP == " "

HASH == "# "

SOCKS5 == "socks5 127.0.0.1 9050"

HTTP == "http"

MARKER == "[ProxyList]"

TXT == "comment only"

Tokens == {NL, CR, SP, HASH, SOCKS5, HTTP, MARKER, TXT}

\* str.strip() removes these characters; the other tokens begin and end the
\* stripped text they are part of (HASH ends with a blank, which no prefix
\* test reads).
Whitespace == {NL, CR, SP}

\* The tokens whose text begins with the given prefix.
TokensBeginning(prefix) ==
    IF prefix = "socks" THEN {SOCKS5}
    ELSE IF prefix = "http" THEN {HTTP}
    ELSE {}

RECURSIVE TextsUpTo(_)
TextsUpTo(n) ==
    IF n = 0 THEN {<<>>}
    ELSE LET shorter == TextsUpTo(n - 1)
         IN  shorter \cup {Append(t, c) : t \in shorter, c \in Tokens}

File(data) == [exists |-> TRUE, data |-> data]

Absent == [exists |-> FALSE, data |-> <<>>]

----------------------------------------------------------------------------
(* Python text operations *)

RECURSIVE lstrip(_)
lstrip(s) ==
    IF s = <<>> THEN s
    ELSE IF Head(s) \in Whitespace THEN lstrip(Tail(s)) ELSE s

RECURSIVE rstrip(_)
rstrip(s) ==
    IF s = <<>> THEN s
    ELSE IF s[Len(s)] \in Whitespace THEN rstrip(SubSeq(s, 1, Len(s) - 1)) ELSE s

strip(s) == rstrip(lstrip(s))

startswith(s, prefix) == s # <<>> /\ Head(s) \in TokensBeginning(prefix)

\* open(config_file, "r"): text mode reads "\r\n" and a lone "\r" as "\n".
RECURSIVE UniversalNewlines(_)
UniversalNewlines(b) ==
    IF b = <<>> THEN <<>>
    ELSE IF Head(b) = CR
         THEN <<NL>> \o UniversalNewlines(
                  IF Len(b) > 1 /\ b[2] = NL THEN Tail(Tail(b)) ELSE Tail(b))
         ELSE <<Head(b)>> \o UniversalNewlines(Tail(b))

\* readlines() on the decoded text: every line keeps its "\n"; a last line
\* without one is returned as it is; there is no empty line.
RECURSIVE SplitKeepEnds(_, _)
SplitKeepEnds(text, cur) ==
    IF text = <<>> THEN (IF cur = <<>> THEN <<>> ELSE <<cur>>)
    ELSE IF Head(text) = NL
         THEN <<Append(cur, NL)>> \o SplitKeepEnds(Tail(text), <<>>)
         ELSE SplitKeepEnds(Tail(text), Append(cur, Head(text)))

readlines(data) == SplitKeepEnds(UniversalNewlines(data), <<>>)

\* copyfile as a copy made through text-mode file objects
copyfile_text(data) == UniversalNewlines(data)

\* shutil.copyfile copies the bytes.
copyfile(data) == data

----------------------------------------------------------------------------
(* configure_proxychains: the body of the line loop and the trailer *)

\* the directive test with the "socks" prefix left out
IsDirective_http_only(line) == startswith(strip(line), "http")

\* line.strip().startswith("socks") or line.strip().startswith("http")
IsDirective(line) ==
    startswith(strip(line), "socks") \/ startswith(strip(line), "http")

\* "[ProxyList]" in line
HasMarker(line) == \E k \in DOMAIN line : line[k] = MARKER

\* the loop body without the "# " prefix
WriteFor_unchanged(line) == line

\* what the loop body writes for one line
WriteFor(line) == IF IsDirective(line) THEN <<HASH>> \o line ELSE line

\* the loop body with the marker test placed before the directive test
MarksFound_marker_first(line) == HasMarker(line)

\* whether the loop body sets found_proxy_list for one line
MarksFound(line) == ~IsDirective(line) /\ HasMarker(line)

\* the trailer without the else branch
Trailer_no_header(f) == <<SOCKS5, NL>>

\* what is written after the loop
Trailer(f) ==
    IF f THEN <<SOCKS5, NL>>
    ELSE <<NL, MARKER, NL>> \o <<SOCKS5, NL>>

RECURSIVE LoopOutput(_)
LoopOutput(ls) ==
    IF ls = <<>> THEN <<>> ELSE WriteFor(Head(ls)) \o LoopOutput(Tail(ls))

FoundAfter(ls) == \E k \in DOMAIN ls : MarksFound(ls[k])

\* the content of the config file after the with-block of lines 96-116
Rewrite(data) ==
    LET ls == readlines(data)
    IN  LoopOutput(ls) \o Trailer(FoundAfter(ls))

----------------------------------------------------------------------------
(* run_cmd and the root check *)

\* run_cmd that never exits
Fatal_never(check, rc) == FALSE

\* run_cmd that ignores its check parameter
Fatal_always(check, rc) == rc # 0

\* run_cmd: `if check and result.returncode != 0`
Fatal(check, rc) == check /\ rc # 0

\* main without the root check
IsRoot_unchecked(uid) == TRUE

\* main: the process goes on only if `os.geteuid() != 0` is false
IsRoot(uid) == uid = 0

ReturnCodes == {0, 1}

Entry(step, op, rc) == [step |-> step, op |-> op, rc |-> rc]

\* run_cmd(command, check) called at a place of step `step`, returning to `next`
run_cmd(step, command, rc, check, next) ==
    /\ log' = Append(log, Entry(step, command, rc))
    /\ IF Fatal(check, rc)
       THEN /\ pc' = "exit"
            /\ status' = 1
            /\ fatal' = "command"
       ELSE /\ pc' = next
            /\ UNCHANGED <<status, fatal>>

----------------------------------------------------------------------------
(* Initial states *)

FileStates(n) == {Absent} \cup {File(d) : d \in TextsUpTo(n)}

\* main is invoked by any user on any state of the four files.
Init ==
    /\ pc = "input"
    /\ euid \in {0, 1000}
    /\ status = 0
    /\ fatal = "none"
    /\ finished = 0
    /\ torList \in BOOLEAN
    /\ gpgKey \in BOOLEAN
    /\ conf \in FileStates(MaxConfLen)
    /\ bak \in {Absent, File(<<TXT, NL>>)}
    /\ lines = <<>>
    /\ i = 1
    /\ found = FALSE
    /\ log = <<>>
    /\ fs0 = [torList |-> torList, gpgKey |-> gpgKey, conf |-> conf, bak |-> bak]
    /\ conf0 = <<>>
    /\ runs = 0

\* configure_proxychains alone, called on an existing config file of any content.
InitRewrite ==
    /\ pc = "configure_proxychains"
    /\ euid = 0
    /\ status = 0
    /\ fatal = "none"
    /\ finished = 0
    /\ torList = TRUE
    /\ gpgKey = TRUE
    /\ conf \in {File(d) : d \in TextsUpTo(MaxLen)}
    /\ bak = Absent
    /\ lines = <<>>
    /\ i = 1
    /\ found = FALSE
    /\ log = <<>>
    /\ fs0 = [torList |-> torList, gpgKey |-> gpgKey, conf |-> conf, bak |-> bak]
    /\ conf0 = <<>>
    /\ runs = 0

----------------------------------------------------------------------------
(* main *)

\* lines 161-172: the plan is printed and input() returns
main_input ==
    /\ pc = "input"
    /\ pc' = "geteuid"
    /\ UNCHANGED <<euid, status, fatal, finished, torList, gpgKey, conf, bak,
                   lines, i, found, log, fs0, conf0, runs>>

\* lines 175-177
main_geteuid ==
    /\ pc = "geteuid"
    /\ IF IsRoot(euid)
       THEN /\ pc' = "purge"
            /\ UNCHANGED <<status, fatal>>
       ELSE /\ pc' = "exit"
            /\ status' = 1
            /\ fatal' = "not root"
    /\ UNCHANGED <<euid, finished, torList, gpgKey, conf, bak,
                   lines, i, found, log, fs0, conf0, runs>>

\* lines 184-186: main returns and the interpreter exits with status 0
main_finish ==
    /\ pc = "finish"
    /\ pc' = "exit"
    /\ UNCHANGED <<euid, status, fatal, finished, torList, gpgKey, conf, bak,
                   lines, i, found, log, fs0, conf0, runs>>

----------------------------------------------------------------------------
(* Step 1: cleanup_existing_install *)

cleanup_purge ==
    /\ pc = "purge"
    /\ \E rc \in ReturnCodes :
           run_cmd(1, "apt purge -y tor torbrowser-launcher", rc, FALSE, "remove_list")
    /\ UNCHANGED <<euid, finished, torList, gpgKey, conf, bak,
                   lines, i, found, fs0, conf0, runs>>

cleanup_remove_list ==
    /\ pc = "remove_list"
    /\ pc' = "remove_key"
    /\ IF torList
       THEN /\ torList' = FALSE
            /\ log' = Append(log, Entry(1, "os.remove torproject.list", 0))
       ELSE UNCHANGED <<torList, log>>
    /\ UNCHANGED <<euid, status, fatal, finished, gpgKey, conf, bak,
                   lines, i, found, fs0, conf0, runs>>

cleanup_remove_key ==
    /\ pc = "remove_key"
    /\ pc' = "autoremove"
    /\ IF gpgKey
       THEN /\ gpgKey' = FALSE
            /\ log' = Append(log, Entry(1, "os.remove tor-archive-keyring.gpg", 0))
       ELSE UNCHANGED <<gpgKey, log>>
    /\ UNCHANGED <<euid, status, fatal, finished, torList, conf, bak,
                   lines, i, found, fs0, conf0, runs>>

cleanup_autoremove ==
    /\ pc = "autoremove"
    /\ \E rc \in ReturnCodes :
           run_cmd(1, "apt autoremove -y", rc, TRUE, "cleanup_update")
    /\ UNCHANGED <<euid, finished, torList, gpgKey, conf, bak,
                   lines, i, found, fs0, conf0, runs>>

cleanup_update ==
    /\ pc = "cleanup_update"
    /\ \E rc \in ReturnCodes :
           /\ run_cmd(1, "apt update", rc, TRUE, "key_cmd")
           /\ finished' = IF Fatal(TRUE, rc) THEN finished ELSE finished + 1
    /\ UNCHANGED <<euid, torList, gpgKey, conf, bak,
                   lines, i, found, fs0, conf0, runs>>

----------------------------------------------------------------------------
(* Step 2: install_tor_and_proxychains *)

\* wget | gpg --dearmor | tee keyring: tee creates the key file; when the
\* pipeline fails the file may or may not have been created.
install_key_cmd ==
    /\ pc = "key_cmd"
    /\ \E rc \in ReturnCodes :
           /\ run_cmd(2, "wget | gpg --dearmor | tee tor-archive-keyring.gpg", rc, TRUE, "chmod")
           /\ gpgKey' \in (IF rc = 0 THEN {TRUE} ELSE {gpgKey, TRUE})
    /\ UNCHANGED <<euid, finished, torList, conf, bak,
                   lines, i, found, fs0, conf0, runs>>

install_chmod ==
    /\ pc = "chmod"
    /\ \E rc \in ReturnCodes :
           run_cmd(2, "chmod 644 tor-archive-keyring.gpg", rc, TRUE, "write_repo")
    /\ UNCHANGED <<euid, finished, torList, gpgKey, conf, bak,
                   lines, i, found, fs0, conf0, runs>>

install_write_repo ==
    /\ pc = "write_repo"
    /\ pc' = "install_update"
    /\ torList' = TRUE
    /\ log' = Append(log, Entry(2, "write torproject.list", 0))
    /\ UNCHANGED <<euid, status, fatal, finished, gpgKey, conf, bak,
                   lines, i, found, fs0, conf0, runs>>

install_update ==
    /\ pc = "install_update"
    /\ \E rc \in ReturnCodes :
           run_cmd(2, "apt update", rc, TRUE, "apt_install")
    /\ UNCHANGED <<euid, finished, torList, gpgKey, conf, bak,
                   lines, i, found, fs0, conf0, runs>>

\* apt install -y tor proxychains4: a successful installation leaves an
\* existing config file alone and may create a missing one, with any content.
install_apt_install ==
    /\ pc = "apt_install"
    /\ \E rc \in ReturnCodes :
           /\ run_cmd(2, "apt install -y tor proxychains4", rc, TRUE, "exists")
           /\ finished' = IF Fatal(TRUE, rc) THEN finished ELSE finished + 1
           /\ conf' \in (IF rc = 0 /\ ~conf.exists
                         THEN FileStates(MaxConfLen) ELSE {conf})
    /\ UNCHANGED <<euid, torList, gpgKey, bak,
                   lines, i, found, fs0, conf0, runs>>

----------------------------------------------------------------------------
(* Step 3: configure_proxychains *)

\* lines 85-87
configure_exists ==
    /\ pc = "exists"
    /\ conf0' = conf.data
    /\ IF conf.exists
       THEN /\ pc' = "copyfile"
            /\ UNCHANGED <<status, fatal>>
       ELSE /\ pc' = "exit"
            /\ status' = 1
            /\ fatal' = "missing config"
    /\ UNCHANGED <<euid, finished, torList, gpgKey, conf, bak,
                   lines, i, found, log, fs0, runs>>

\* line 91
configure_copyfile ==
    /\ pc = "copyfile"
    /\ pc' = "readlines"
    /\ bak' = File(copyfile(conf.data))
    /\ log' = Append(log, Entry(3, "copyfile proxychains4.conf.bak", 0))
    /\ UNCHANGED <<euid, status, fatal, finished, torList, gpgKey, conf,
                   lines, i, found, fs0, conf0, runs>>

\* lines 93-94
configure_readlines ==
    /\ pc = "readlines"
    /\ pc' = "open_w"
    /\ lines' = readlines(conf.data)
    /\ UNCHANGED <<euid, status, fatal, finished, torList, gpgKey, conf, bak,
                   i, found, log, fs0, conf0, runs>>

\* lines 96-97: open(config_file, "w") truncates the file
configure_open_w ==
    /\ pc = "open_w"
    /\ pc' = "loop"
    /\ conf' = File(<<>>)
    /\ found' = FALSE
    /\ i' = 1
    /\ log' = Append(log, Entry(3, "truncate proxychains4.conf", 0))
    /\ UNCHANGED <<euid, status, fatal, finished, torList, gpgKey, bak,
                   lines, fs0, conf0, runs>>

\* lines 98-107: one iteration of the loop
configure_loop ==
    /\ pc = "loop"
    /\ i <= Len(lines)
    /\ conf' = File(conf.data \o WriteFor(lines[i]))
    /\ found' = (found \/ MarksFound(lines[i]))
    /\ i' = i + 1
    /\ log' = Append(log, Entry(3, "write proxychains4.conf", 0))
    /\ UNCHANGED <<pc, euid, status, fatal, finished, torList, gpgKey, bak,
                   lines, fs0, conf0, runs>>

\* lines 110-118: the trailer, and the function returns
configure_trailer ==
    /\ pc = "loop"
    /\ i > Len(lines)
    /\ pc' = "systemctl"
    /\ conf' = File(conf.data \o Trailer(found))
    /\ log' = Append(log, Entry(3, "write proxychains4.conf", 0))
    /\ finished' = finished + 1
    /\ runs' = runs + 1
    /\ UNCHANGED <<euid, status, fatal, torList, gpgKey, bak,
                   lines, i, found, fs0, conf0>>

\* lines 78-118 as one step: a call of configure_proxychains on an existing
\* config file, from the existence check to the return.
configure_proxychains ==
    /\ pc = "configure_proxychains"
    /\ runs < MaxRuns
    /\ conf.exists
    /\ conf0' = conf.data
    /\ bak' = File(copyfile(conf.data))
    /\ lines' = readlines(conf.data)
    /\ i' = Len(readlines(conf.data)) + 1
    /\ found' = FoundAfter(readlines(conf.data))
    /\ conf' = File(Rewrite(conf.data))
    /\ runs' = runs + 1
    /\ UNCHANGED <<pc, euid, status, fatal, finished, torList, gpgKey, log, fs0>>

----------------------------------------------------------------------------
(* Step 4: start_tor_and_provide_instructions *)

start_systemctl ==
    /\ pc = "systemctl"
    /\ \E rc \in ReturnCodes :
           run_cmd(4, "systemctl enable --now tor", rc, TRUE, "sleep")
    /\ UNCHANGED <<euid, finished, torList, gpgKey, conf, bak,
                   lines, i, found, fs0, conf0, runs>>

\* lines 129-154: time.sleep(10), the instructions, and the function returns
start_sleep ==
    /\ pc = "sleep"
    /\ pc' = "finish"
    /\ finished' = finished + 1
    /\ UNCHANGED <<euid, status, fatal, torList, gpgKey, conf, bak,
                   lines, i, found, log, fs0, conf0, runs>>

----------------------------------------------------------------------------
(* Specifications *)

Next ==
    \/ main_input
    \/ main_geteuid
    \/ cleanup_purge
    \/ cleanup_remove_list
    \/ cleanup_remove_key
    \/ cleanup_autoremove
    \/ cleanup_update
    \/ install_key_cmd
    \/ install_chmod
    \/ install_write_repo
    \/ install_update
    \/ install_apt_install
    \/ configure_exists
    \/ configure_copyfile
    \/ configure_readlines
    \/ configure_open_w
    \/ configure_loop
    \/ configure_trailer
    \/ start_systemctl
    \/ start_sleep
    \/ main_finish

Spec == Init /\ [][Next]_vars

NextRewrite == configure_proxychains

SpecRewrite == InitRewrite /\ [][NextRewrite]_vars

----------------------------------------------------------------------------
(* Sanity of the model *)

TypeOK ==
    /\ pc \in {"input", "geteuid", "purge", "remove_list", "remove_key",
               "autoremove", "cleanup_update", "key_cmd", "chmod", "write_repo",
               "install_update", "apt_install", "exists", "copyfile",
               "readlines", "open_w", "loop", "systemctl", "sleep", "finish",
               "exit", "configure_proxychains"}
    /\ status \in {0, 1}
    /\ fatal \in {"none", "not root", "command", "missing config"}
    /\ finished \in 0..4
    /\ torList \in BOOLEAN /\ gpgKey \in BOOLEAN /\ found \in BOOLEAN
    /\ conf.exists \in BOOLEAN /\ bak.exists \in BOOLEAN

\* The step-by-step with-block and the one-step Rewrite write the same file.
StepwiseAgrees ==
    (pc \in {"systemctl", "sleep", "finish"} \/ (pc = "exit" /\ finished >= 3))
        => conf.data = Rewrite(conf0)

----------------------------------------------------------------------------
(* Vocabulary of the properties *)

\* The lines of a text: the pieces between "\n", without the "\n"; a last
\* piece without "\n" is a line when it is not empty.
RECURSIVE SplitDropEnds(_, _)
SplitDropEnds(text, cur) ==
    IF text = <<>> THEN (IF cur = <<>> THEN <<>> ELSE <<cur>>)
    ELSE IF Head(text) = NL
         THEN <<cur>> \o SplitDropEnds(Tail(text), <<>>)
         ELSE SplitDropEnds(Tail(text), Append(cur, Head(text)))

TextLines(text) == SplitDropEnds(text, <<>>)

\* The text of the config file as configure_proxychains found it, and its lines.
InText == UniversalNewlines(conf0)

InLines == TextLines(InText)

\* The lines of the config file now.
OutLines == TextLines(conf.data)

EndsWithNewline(text) == text # <<>> /\ text[Len(text)] = NL

Disabled(line) == <<HASH>> \o line

IsPrefix(p, s) == Len(p) <= Len(s) /\ SubSeq(s, 1, Len(p)) = p

Processed(ls) ==
    [k \in DOMAIN ls |-> IF IsDirective(ls[k]) THEN Disabled(ls[k]) ELSE ls[k]]

NotDirective(line) == ~IsDirective(line)

RECURSIVE IsSubseq(_, _)
IsSubseq(a, b) ==
    IF a = <<>> THEN TRUE
    ELSE IF b = <<>> THEN FALSE
    ELSE IF Head(a) = Head(b) THEN IsSubseq(Tail(a), Tail(b))
    ELSE IsSubseq(a, Tail(b))

InputHasMarker == \E k \in DOMAIN InLines : HasMarker(InLines[k])

\* configure_proxychains has run to its end at least once.
Rewritten == runs >= 1

FailedFatally(e) == e.rc # 0 /\ e.op # "apt purge -y tor torbrowser-launcher"

PurgeFailed ==
    /\ log # <<>>
    /\ log[1].op = "apt purge -y tor torbrowser-launcher"
    /\ log[1].rc # 0

FsNow == [torList |-> torList, gpgKey |-> gpgKey, conf |-> conf, bak |-> bak]

----------------------------------------------------------------------------
(* Properties of the pipeline, under Spec *)

\* C1: the steps run in the order 1, 2, 3, 4, an operation of a step happening
\* only after the previous step returned; a fatal failure (a checked command
\* returning non-zero, or the missing config file) ends the process with
\* status 1 and is the last thing the process did; status 0 is the exit
\* status only after all four steps returned.
C1_SequentialAbort ==
    /\ \A a, b \in DOMAIN log : a < b => log[a].step <= log[b].step
    /\ \A k \in DOMAIN log : log[k].step <= finished + 1
    /\ \A k \in DOMAIN log :
           FailedFatally(log[k])
               => k = Len(log) /\ pc = "exit" /\ status = 1 /\ fatal = "command"
    /\ fatal = "command" => log # <<>> /\ FailedFatally(log[Len(log)])
    /\ fatal = "missing config"
           => finished = 2 /\ \A k \in DOMAIN log : log[k].step < 3
    /\ fatal # "none" => pc = "exit" /\ status = 1 /\ finished < 4
    /\ pc = "exit" => (status = 0 <=> finished = 4) /\ (status = 1 <=> fatal # "none")

\* a command of step 2 failed after step 1 had returned
C1_Witness ==
    /\ pc = "exit" /\ status = 1 /\ fatal = "command"
    /\ finished = 1
    /\ log[Len(log)].op = "apt install -y tor proxychains4"

\* C2: invoked with an effective user id other than 0, the process ends with
\* status 1 and has run no command and changed no file, whatever the files
\* were.
C2_NonRootNoMutation ==
    ~(euid = 0) =>
        /\ log = <<>>
        /\ FsNow = fs0
        /\ pc = "exit" => status = 1 /\ fatal = "not root"

C2_Witness ==
    /\ euid # 0 /\ pc = "exit" /\ status = 1
    /\ conf.exists /\ bak.exists /\ torList

\* C3: a failed apt purge does not end the process: the process never stops
\* at it, and once it stopped the deletions of the files that existed and
\* apt autoremove have been done; every other command that returns non-zero
\* is the last operation of the process, which exits with status 1.
C3_OnlyPurgeNonFatal ==
    /\ PurgeFailed =>
          /\ ~(pc = "exit" /\ Len(log) = 1)
          /\ pc = "exit" =>
                /\ \E k \in DOMAIN log : log[k].op = "apt autoremove -y"
                /\ fs0.torList =>
                      \E k \in DOMAIN log : log[k].op = "os.remove torproject.list"
                /\ fs0.gpgKey =>
                      \E k \in DOMAIN log : log[k].op = "os.remove tor-archive-keyring.gpg"
    /\ \A k \in DOMAIN log :
          FailedFatally(log[k]) => k = Len(log) /\ pc = "exit" /\ status = 1

\* apt purge failed and the cleanup step went on to its end
C3_Witness ==
    /\ PurgeFailed
    /\ finished >= 1
    /\ \E k \in DOMAIN log : log[k].op = "apt update" /\ log[k].rc = 0

\* C8: once configure_proxychains is past the copy, the backup file holds
\* the content the config file had when the function was entered, and keeps
\* it to the end of the process; the config file is untouched until then.
C8_BackupEqualsInput ==
    /\ pc \in {"copyfile", "readlines", "open_w"} => conf = File(conf0)
    /\ (pc \in {"readlines", "open_w", "loop"} \/ runs >= 1) => bak = File(conf0)

\* the config file has been rewritten and the backup differs from what it was
C8_Witness ==
    /\ runs >= 1
    /\ bak = File(conf0)
    /\ conf.data # conf0
    /\ bak # fs0.bak
    /\ \E k \in DOMAIN conf0 : conf0[k] = CR

----------------------------------------------------------------------------
(* Properties of the rewrite, under SpecRewrite *)

C5_OtherLinesUnchanged ==
    Rewritten =>
        /\ Len(OutLines) >= Len(InLines)
        /\ IsSubseq(SelectSeq(InLines, NotDirective), OutLines)

\* C6: when a line of the input contains "[ProxyList]", the lines of the
\* output are the processed lines of the input followed by the one line
\* "socks5 127.0.0.1 9050".
C6_AppendedOnce ==
    (Rewritten /\ InputHasMarker) =>
        OutLines = Processed(InLines) \o << <<SOCKS5>> >>

\* C7 as stated: without a "[ProxyList]" line in the input, the output is
\* the processed input, an empty line, "[ProxyList]", an empty line and
\* "socks5 127.0.0.1 9050"; "# comment only\n" gives
\* "# comment only\n\n[ProxyList]\n\nsocks5 127.0.0.1 9050\n".
C7_AsStated ==
    (Rewritten /\ ~InputHasMarker) =>
        /\ OutLines = Processed(InLines) \o << <<>>, <<MARKER>>, <<>>, <<SOCKS5>> >>
        /\ conf0 = <<HASH, TXT, NL>>
               => conf.data = <<HASH, TXT, NL, NL, MARKER, NL, NL, SOCKS5, NL>>

\* C7 amended: without a "[ProxyList]" line in the input, the output is the
\* processed input, then an empty line if the input is empty or ends with a
\* newline, then the line "[ProxyList]" and right after it the line
\* "socks5 127.0.0.1 9050", each ended by a newline; "# comment only\n"
\* gives "# comment only\n\n[ProxyList]\nsocks5 127.0.0.1 9050\n".
C7_SynthesizedHeader ==
    (Rewritten /\ ~InputHasMarker) =>
        /\ OutLines = Processed(InLines)
                        \o (IF InText = <<>> \/ EndsWithNewline(InText)
                            THEN << <<>> >> ELSE <<>>)
                        \o << <<MARKER>>, <<SOCKS5>> >>
        /\ EndsWithNewline(conf.data)
        /\ conf0 = <<HASH, TXT, NL>>
               => conf.data = <<HASH, TXT, NL, NL, MARKER, NL, SOCKS5, NL>>

C7_Witness ==
    /\ Rewritten
    /\ conf0 = <<HASH, TXT, NL>>
    /\ conf.data = <<HASH, TXT, NL, NL, MARKER, NL, SOCKS5, NL>>

C10_AsStated ==
    Rewritten =>
        \A k \in DOMAIN InLines :
            (IsDirective(InLines[k]) /\ HasMarker(InLines[k])) =>
                /\ OutLines[k] = InLines[k]
                /\ found
                /\ Len(OutLines) = Len(InLines) + 1

\* C10 amended: the directive test comes first: a line that contains
\* "[ProxyList]" and is a directive line is written with "# " before it and
\* does not mark the section found; the section is found exactly when some
\* line that is not a directive contains the marker, and otherwise the
\* header is synthesized before the appended SOCKS line.
C10_DirectiveFirst ==
    (Rewritten /\ \E k \in DOMAIN InLines : IsDirective(InLines[k]) /\ HasMarker(InLines[k]))
    =>  /\ \A k \in DOMAIN InLines :
               (IsDirective(InLines[k]) /\ HasMarker(InLines[k])) =>
                   IsPrefix(Disabled(InLines[k]), OutLines[k])
        /\ found <=> \E j \in DOMAIN InLines :
                         ~IsDirective(InLines[j]) /\ HasMarker(InLines[j])
        /\ ~found =>
               /\ Len(OutLines) >= 2
               /\ OutLines[Len(OutLines) - 1] = <<MARKER>>
               /\ OutLines[Len(OutLines)] = <<SOCKS5>>

C10_Witness ==
    /\ Rewritten
    /\ conf0 = <<SOCKS5, MARKER, NL>>
    /\ ~found
    /\ conf.data = <<HASH, SOCKS5, MARKER, NL, NL, MARKER, NL, SOCKS5, NL>>

====
